---- MODULE Spec2Model ----
(***************************************************************************)
(* Model of the Media Transcriber service (main.py).                       *)
(*                                                                         *)
(* One process, one asyncio event loop (uvicorn.run(app)).  Every handler  *)
(* is an `async def` coroutine; a coroutine keeps the loop until it        *)
(* awaits or finishes.  transcribe_media contains no await, so it keeps    *)
(* the loop from its first line to its return or raise.                    *)
(*                                                                         *)
(* The download engine (yt_dlp) and the speech model (whisper) are         *)
(* external: their outcomes (result or raised exception) are chosen        *)
(* nondeterministically.  The download engine is assumed to write exactly  *)
(* the file it reports, and may have written it when it raises; a cookie   *)
(* file it was given it may dump back when it is closed.                   *)
(***************************************************************************)
EXTENDS Integers, Sequences, FiniteSets, TLC

\* ------------------------------------------------------------------ bounds
NumReq == 2            \* POST /transcribe requests
NumHealth == 1         \* GET /health requests
MaxTmp == 2            \* distinct random names tempfile can draw
MaxPings == 2          \* ping_service calls of keep_alive_task
LoopReq == 1           \* POST /transcribe requests alongside the pinger
NumApiReq == 2         \* requests to transcription_api.py

Req == 1..NumReq
Health == 1..NumHealth
TmpNames == 1..MaxTmp

\* ------------------------------------------------------------ value spaces
\* A path is <<name, suffix>>; name 0 is used for fixed (non-random) names.
None == <<0, "">>
CookieTxt == <<0, "cookie.txt">>
PlaceholderSuffix == "%(ext)s"
CookieSuffix == "txt"
MediaExts == {"webm"}

NoEnv == "<unset>"
\* A value with bytes that are not UTF-8 reaches Python as surrogates
NotUtf8 == "SID=<surrogates>"
EnvCookieValues == {NoEnv, "", "SID=abc", NotUtf8}

URLs == { [scheme |-> "https", host |-> "example.com"],
          [scheme |-> "",      host |-> "example.com"],
          [scheme |-> "",      host |-> ""] }
ModelSizes == {"base", "bogus"}
DefaultModelSize == "base"

DownloadCauses == {"Unsupported URL", "timed out"}
LoadCauses == {"Invalid model size"}
InferenceCauses == {"Failed to load audio"}

NoTask == 0
PingerTask == NumReq + 1     \* keep_alive_task, as holder of the event loop

\* DEPLOYED_URL: not set, set to nothing, this very process, another host
SelfUrl == "http://localhost:8000"
OtherUrl == "https://other.example.com"
DeployedUrls == {NoEnv, SelfUrl, OtherUrl}

\* How requests.get(url + '/health', timeout=30) can end
PingResults == {"200", "503", "RequestException"}

NoExc == [type |-> "", status_code |-> 0, detail |-> <<>>]
NoOutcome == [kind |-> "", status |-> 0, detail |-> <<>>, body |-> <<>>]
NoResult == <<>>

\* What the speech model may hand back: the usual dict, or one lacking a key.
EngineResults ==
  { [text |-> <<" ", "hello", "\r">>,
     segments |-> << [id |-> 0, start |-> 0, end |-> 1,
                      text |-> <<"\f", "hello">>] >>,
     language |-> "en"],
    [text |-> <<"hello">>,
     segments |-> << >>] }

\* --------------------------------------------------------------- variables
VARIABLES
  fs,         \* the disk: path -> content, DOMAIN fs = the files that exist
  env,        \* os.environ['YOUTUBE_COOKIES'] (NoEnv when not set)
  running,    \* the task that holds the event loop (NoTask when it is free)
  pc,         \* position of each /transcribe request
  req,        \* the TranscriptionRequest of each request
  local,      \* local variables of transcribe_media / download_media
  outcome,    \* how the handler ended: response or escaped exception
  hist,       \* bookkeeping about each request (calls, unlinks, files, stages)
  hpc,        \* position of each /health request
  hresp,      \* response of each /health request
  deployed_url,  \* os.getenv('DEPLOYED_URL') (NoEnv when not set)
  ppc,        \* position of keep_alive_task
  ping_log,   \* what each finished ping_service call logged, in order
  self_req,   \* the GET /health the pinger sent to this very process
  shutdown,   \* lifespan has passed its yield (the app is shutting down)
  arunning,   \* transcription_api: the task holding its event loop
  apc,        \* transcription_api: position of each request
  areq,       \* transcription_api: the TranscriptionRequest and endpoint
  alocal,     \* transcription_api: local variables of transcribe_audio
  aoutcome,   \* transcription_api: how each request ended
  ahist       \* transcription_api: bookkeeping about each request

reqVars == <<pc, req, local, outcome, hist>>
healthVars == <<hpc, hresp>>
pingVars == <<deployed_url, ppc, ping_log, self_req, shutdown>>
apiVars == <<arunning, apc, areq, alocal, aoutcome, ahist>>
vars == <<fs, env, running, reqVars, healthVars, pingVars, apiVars>>

\* ------------------------------------------------------------- file system
Exists(fsys, p) == p \in DOMAIN fsys

WriteFile(fsys, p, c) ==
  [q \in (DOMAIN fsys) \cup {p} |-> IF q = p THEN c ELSE fsys[q]]

Unlink(fsys, p) == [q \in (DOMAIN fsys) \ {p} |-> fsys[q]]

\* tempfile.NamedTemporaryFile: a random name whose full path is not taken
FreeNames(fsys, suffix) == { n \in TmpNames : ~Exists(fsys, <<n, suffix>>) }

Truthy(s) == s # NoEnv /\ s # ""

\* main.py 85: a text file can take the string (it encodes as UTF-8)
Encodable(s) == s # NotUtf8

Contains(detail, cause) == \E i \in DOMAIN detail : detail[i] = cause

\* str.strip(): a text is a sequence of characters and words; leading and
\* trailing whitespace goes, inner whitespace stays.
\* Characters of str.isspace() that have no escape in a string here are
\* written by their code point.
IsSpace(c) ==
  c \in {" ", "\t", "\n", "\r", "\f", "U+000B", "U+001C", "U+001D",
         "U+001E", "U+001F", "U+0085", "U+00A0", "U+1680", "U+2000",
         "U+2001", "U+2002", "U+2003", "U+2004", "U+2005", "U+2006",
         "U+2007", "U+2008", "U+2009", "U+200A", "U+2028", "U+2029",
         "U+202F", "U+205F", "U+3000"}
Strip(t) ==
  LET keep == { i \in 1..Len(t) : ~IsSpace(t[i]) } IN
  IF keep = {} THEN <<>>
  ELSE SubSeq(t, CHOOSE i \in keep : \A j \in keep : i <= j,
                 CHOOSE i \in keep : \A j \in keep : i >= j)

\* ------------------------------------------------------------ pure helpers
\* validators.url: true only for a scheme and a host
validate_url(url) == url.scheme \in {"http", "https"} /\ url.host # ""

\* main.py 80-87: which cookie material download_media chooses.
\* "persistent" = cookie.txt, "transient" = a file written from the
\* environment value, "none" = no cookiefile option.
CookieChoice_envfirst(fsys, youtube_cookies) ==
  IF Truthy(youtube_cookies) THEN "transient"
  ELSE IF Exists(fsys, CookieTxt) THEN "persistent"
  ELSE "none"
CookieChoice(fsys, youtube_cookies) ==
  IF Exists(fsys, CookieTxt) THEN "persistent"
  ELSE IF Truthy(youtube_cookies) THEN "transient"
  ELSE "none"

\* main.py 84-85: the text written to the transient cookie file
CookieFileText(youtube_cookies) ==
  <<"# Netscape HTTP Cookie File\n", youtube_cookies>>

\* An exception of tempfile or of a file write, raised outside every try
\* of download_media
RawException(type, msg) ==
  [type |-> type, status_code |-> 0, detail |-> <<msg>>]

\* main.py 83-86: how writing the transient cookie file can fail, as the
\* exception that leaves the with block and what the file then holds.  The
\* device may take nothing or the header only (OSError); a string that
\* cannot be encoded raises UnicodeEncodeError at line 85 with the header
\* flushed by the close, unless that flush fails too, and then the OSError
\* of the close replaces it and the file is empty.
CookieWriteFailures(youtube_cookies) ==
  LET header == SubSeq(CookieFileText(youtube_cookies), 1, 1)
      full == RawException("OSError", "No space left on device")
  IN IF Encodable(youtube_cookies)
       THEN { [exc |-> full, left |-> <<>>],
              [exc |-> full, left |-> header] }
       ELSE { [exc |-> full, left |-> <<>>],
              [exc |-> RawException("UnicodeEncodeError",
                                    "surrogates not allowed"),
               left |-> header] }

\* main.py 89-91: the cookie file download_media considers its own
TempCookieFile(cookiefile) ==
  IF cookiefile # None /\ cookiefile # CookieTxt THEN cookiefile ELSE None

\* main.py 80-81, 87, 94: the file named by ydl_opts['cookiefile'] is the
\* engine's cookie jar; the engine reads it and, when the with block of
\* line 94 closes it, may write the jar back over it in its own format.
EngineCookieDump ==
  <<"# Netscape HTTP Cookie File\n", "# This file is generated by yt-dlp">>
CookieFileAfterEngine(fsys, cookiefile) ==
  IF cookiefile # None /\ Exists(fsys, cookiefile)
    THEN {fsys, WriteFile(fsys, cookiefile, EngineCookieDump)}
    ELSE {fsys}

\* main.py 103-104: the file the finally of download_media cleans up
DownloadCleanupTarget_media(temp_cookie_file, filename) == filename
DownloadCleanupTarget(temp_cookie_file, filename) == temp_cookie_file

\* main.py 103: the guard of the cookie cleanup
CookieCleanupDue(fsys, temp_cookie_file, exc) ==
  temp_cookie_file # None /\ Exists(fsys, temp_cookie_file)

\* main.py 98-100: any engine failure becomes an HTTPException 400
DownloadHTTPException_500(cause) ==
  [type |-> "HTTPException", status_code |-> 500,
   detail |-> <<"Failed to download media: ", cause>>]
DownloadHTTPException(cause) ==
  [type |-> "HTTPException", status_code |-> 400,
   detail |-> <<"Failed to download media: ", cause>>]

\* main.py 112-114: any model failure becomes an HTTPException 500
TranscribeHTTPException_400(cause) ==
  [type |-> "HTTPException", status_code |-> 400,
   detail |-> <<"Transcription failed: ", cause>>]
TranscribeHTTPException(cause) ==
  [type |-> "HTTPException", status_code |-> 500,
   detail |-> <<"Transcription failed: ", cause>>]

\* main.py 120
InvalidURLException_nodetail ==
  [type |-> "HTTPException", status_code |-> 400, detail |-> <<>>]
InvalidURLException ==
  [type |-> "HTTPException", status_code |-> 400,
   detail |-> <<"Invalid URL provided">>]

\* main.py 124-126: where transcribe_media goes once download_media ended
AfterDownload_ignore(exc) == "fetched"
AfterDownload(exc) == IF exc = NoExc THEN "fetched" ELSE "finally"

\* main.py 135: the guard of the media cleanup
AudioCleanupDue_never(fsys, audio_file) == FALSE
AudioCleanupDue(fsys, audio_file) ==
  audio_file # None /\ Exists(fsys, audio_file)

\* main.py 128-132: the response model built from the engine's dict
HasKeys(result) == {"text", "segments", "language"} \subseteq DOMAIN result
\* The keys are read in the order text, segments, language (129-131)
FirstMissingKey(result) ==
  IF "text" \notin DOMAIN result THEN "text"
  ELSE IF "segments" \notin DOMAIN result THEN "segments"
  ELSE "language"
TranscriptionResponse(result) ==
  [text |-> result.text, segments |-> result.segments,
   language |-> result.language]

\* How a handler's end is seen by the caller
OutcomeOfException(exc) ==
  [kind |-> exc.type, status |-> exc.status_code, detail |-> exc.detail,
   body |-> <<>>]
OutcomeOfResponse(body) ==
  [kind |-> "response", status |-> 200, detail |-> <<>>, body |-> body]

KeyErrorException(key) ==
  [type |-> "KeyError", status_code |-> 0, detail |-> <<key>>]

\* ------------------------------------------------------------ initial state
InitLocal ==
  [tmp_file |-> None, cookiefile |-> None, temp_cookie_file |-> None,
   filename |-> None, audio_file |-> None, exc |-> NoExc,
   result |-> NoResult, response |-> NoResult]

\* The request object before the body is read, and after the handler ended
InitReq ==
  [url |-> [scheme |-> "", host |-> ""], model_size |-> DefaultModelSize]

\* What is observed of each request: calls made, files made and left.
InitHist ==
  [url_valid |-> FALSE, dl_calls |-> 0, tr_calls |-> 0, unlinks |-> 0, stages |-> <<>>,
   created |-> {}, n_created |-> 0, n_left |-> 0,
   cookie_txt_seen |-> FALSE, engine_cookie |-> "",
   transient_made |-> FALSE, transient_left |-> FALSE,
   dl_cause |-> "", tr_cause |-> "", dl_ended |-> FALSE,
   got_path |-> FALSE, audio_left |-> FALSE, engine_result |-> NoResult]

\* The kind of cookiefile option the engine was started with
CookieKind(cookiefile) ==
  IF cookiefile = None THEN "none"
  ELSE IF cookiefile = CookieTxt THEN "cookie.txt"
  ELSE "transient"

PersistentCookieText == <<"# Netscape HTTP Cookie File\n", "operator">>

InitialDisks == { <<>>, [p \in {CookieTxt} |-> PersistentCookieText] }

InitMain ==
  /\ fs \in InitialDisks
  /\ env \in EnvCookieValues
  /\ running = NoTask
  /\ pc = [r \in Req |-> "idle"]
  /\ req = [r \in Req |-> InitReq]
  /\ local = [r \in Req |-> InitLocal]
  /\ outcome = [r \in Req |-> NoOutcome]
  /\ hist = [r \in Req |-> InitHist]
  /\ hpc = [h \in Health |-> "idle"]
  /\ hresp = [h \in Health |-> [status |-> 0, body |-> ""]]

\* lifespan, lines 39-42: the keep-alive task has been created and the app
\* serves; the task has not run yet.
InitPinger(urls) ==
  /\ deployed_url \in urls
  /\ ppc = "created"
  /\ ping_log = <<>>
  /\ self_req = [waiting |-> 0, replied |-> FALSE]
  /\ shutdown = FALSE

\* ---------------------------------------- transcription_api.py, values
ApiReq == 1..NumApiReq

Omitted == "<omitted>"          \* the body has no "language" field
PyNone == "<None>"              \* Python's None as a language argument
BodyLanguages == {Omitted, "auto", "Auto", "en"}
Endpoints == {"/transcribe", "/transcribe-simple"}
AudioSuffix == "audio"

\* How requests.get / raise_for_status can fail (all RequestExceptions)
ApiDownloadFailures ==
  {"Connection refused", "Read timed out", "404 Client Error"}
ApiInferenceFailures == {"Failed to load audio"}

\* What of an engine result decides the handler's path: the keys it has
ResultTag(res) ==
  IF "language" \in DOMAIN res THEN "result" ELSE "result without language"

NoApiExc == [class |-> "", msg |-> ""]

\* transcription_api.py 35: the default of the language field
RequestLanguage(body_language) ==
  IF body_language = Omitted THEN "auto" ELSE body_language

\* transcription_api.py 77: the language handed to model.transcribe
LanguageArg_passthrough(language) == language
LanguageArg(language) == IF language = "auto" THEN PyNone ELSE language

\* transcription_api.py 88-94: segments with timestamps
ApiSegment(seg) ==
  [start |-> seg.start, end |-> seg.end, text |-> Strip(seg.text)]
ApiSegments(result) ==
  IF "segments" \in DOMAIN result
    THEN [i \in 1..Len(result.segments) |-> ApiSegment(result.segments[i])]
    ELSE <<>>

\* transcription_api.py 96-101; result["text"] and result["language"] raise
\* KeyError when the key is missing, duration defaults to 0.
ApiMissingKey(result) ==
  IF "text" \notin DOMAIN result THEN "'text'"
  ELSE IF "language" \notin DOMAIN result THEN "'language'"
  ELSE ""
ApiResponse(result) ==
  [text |-> Strip(result.text),
   language |-> result.language,
   duration |-> IF "duration" \in DOMAIN result THEN result.duration ELSE 0,
   segments |-> ApiSegments(result)]

\* transcription_api.py 105: the guard of the cleanup in the inner finally
ApiCleanupDue(fsys, path) == Exists(fsys, path)

\* transcription_api.py 108-116: the two except clauses
ApiExceptionToHTTP_all500(exc) ==
  [type |-> "HTTPException", status_code |-> 500,
   detail |-> <<"Transcription failed: ", exc.msg>>]
ApiExceptionToHTTP(exc) ==
  IF exc.class = "RequestException"
    THEN [type |-> "HTTPException", status_code |-> 400,
          detail |-> <<"Failed to download audio: ", exc.msg>>]
    ELSE [type |-> "HTTPException", status_code |-> 500,
          detail |-> <<"Transcription failed: ", exc.msg>>]

\* transcription_api.py 119-128: /transcribe-simple returns text and
\* language of the /transcribe result
SimpleBody(response) ==
  [text |-> response.text, language |-> response.language]

InitApiLocal ==
  [temp_file_path |-> None, language |-> "", exc |-> NoApiExc,
   result |-> NoResult, response |-> NoResult]

InitApiHist ==
  [download_ok |-> FALSE, file_made |-> FALSE, file |-> None,
   file_left |-> FALSE, transcribe_calls |-> 0, model_language |-> "",
   dl_failure |-> "", other_failure |-> "", events |-> <<>>,
   engine_result |-> NoResult]

InitApi ==
  /\ arunning = NoTask
  /\ apc = [a \in ApiReq |-> "idle"]
  /\ areq = [a \in ApiReq |-> [body_language |-> Omitted,
                               endpoint |-> "/transcribe"]]
  /\ alocal = [a \in ApiReq |-> InitApiLocal]
  /\ aoutcome = [a \in ApiReq |-> NoOutcome]
  /\ ahist = [a \in ApiReq |-> InitApiHist]

Init == InitMain /\ InitPinger({NoEnv}) /\ InitApi

\* ------------------------------------------------- POST /transcribe, client
\* A client sends a request; it waits in the server's socket until the
\* event loop is free to read it and start its handler.  Requests are
\* numbered in the order they arrive.
Arrive(r) ==
  /\ pc[r] = "idle"
  /\ \A q \in Req : q < r => pc[q] # "idle"
  /\ pc' = [pc EXCEPT ![r] = "pending"]
  /\ UNCHANGED <<fs, env, running, req, local, outcome, hist, healthVars, pingVars, apiVars>>

\* ----------------------------------------- transcribe_media (main.py 117-136)
\* The free loop reads the oldest waiting request, parses its body into a
\* TranscriptionRequest (lines 51-53) and enters the coroutine (line 118).
Start(r) ==
  /\ pc[r] = "pending"
  /\ \A q \in Req : q < r => pc[q] # "pending"
  /\ running = NoTask
  /\ ~shutdown
  /\ running' = r
  /\ \E u \in URLs, m \in ModelSizes :
       req' = [req EXCEPT ![r] = [url |-> u, model_size |-> m]]
  /\ pc' = [pc EXCEPT ![r] = "received"]
  /\ hist' = [hist EXCEPT ![r].stages = Append(@, "Received")]
  /\ UNCHANGED <<fs, env, local, outcome, healthVars, pingVars, apiVars>>

\* Lines 119-122.
Validate(r) ==
  /\ pc[r] = "received"
  /\ running = r
  /\ IF validate_url(req[r].url)
       THEN /\ pc' = [pc EXCEPT ![r] = "validated"]
            /\ local' = [local EXCEPT ![r].audio_file = None]
            /\ hist' = [hist EXCEPT ![r].stages = Append(@, "Validated"),
                                    ![r].url_valid = TRUE]
            /\ UNCHANGED <<running, outcome, req>>
       ELSE /\ pc' = [pc EXCEPT ![r] = "done"]
            /\ outcome' = [outcome EXCEPT
                             ![r] = OutcomeOfException(InvalidURLException)]
            /\ hist' = [hist EXCEPT ![r].stages = Append(@, "Failed")]
            /\ running' = NoTask
            /\ req' = [req EXCEPT ![r] = InitReq]
            /\ UNCHANGED local
  /\ UNCHANGED <<fs, env, healthVars, pingVars, apiVars>>

\* download_media, lines 66-75: the placeholder temp file and the options.
DownloadOpen(r) ==
  /\ pc[r] = "validated"
  /\ running = r
  /\ \/ \E n \in FreeNames(fs, PlaceholderSuffix) :
          LET p == <<n, PlaceholderSuffix>> IN
          /\ fs' = WriteFile(fs, p, <<>>)
          /\ local' = [local EXCEPT ![r].tmp_file = p]
          /\ hist' = [hist EXCEPT ![r].dl_calls = @ + 1,
                                  ![r].created = @ \cup {p},
                                  ![r].n_created = @ + 1]
          /\ pc' = [pc EXCEPT ![r] = "dl_cookies"]
     \* line 67 cannot create the file: the error leaves download_media
     \* and reaches the finally of transcribe_media as it is
     \/ /\ fs' = fs
        /\ local' = [local EXCEPT ![r].exc =
             RawException("OSError", "No usable temporary directory")]
        /\ hist' = [hist EXCEPT ![r].dl_calls = @ + 1,
                                ![r].dl_ended = TRUE]
        /\ pc' = [pc EXCEPT ![r] = "finally"]
  /\ UNCHANGED <<env, running, req, outcome, healthVars, pingVars, apiVars>>

\* download_media, lines 77-91: cookie material.
DownloadCookies(r) ==
  /\ pc[r] = "dl_cookies"
  /\ running = r
  /\ LET choice == CookieChoice(fs, env) IN
     CASE choice = "persistent" ->
            /\ local' = [local EXCEPT
                 ![r].cookiefile = CookieTxt,
                 ![r].temp_cookie_file = TempCookieFile(CookieTxt)]
            /\ hist' = [hist EXCEPT
                 ![r].cookie_txt_seen = Exists(fs, CookieTxt)]
            /\ fs' = fs
            /\ pc' = [pc EXCEPT ![r] = "dl_try"]
       [] choice = "transient" ->
            \* lines 83-87 done: the file holds header and cookies
            \/ /\ Encodable(env)
               /\ \E n \in FreeNames(fs, CookieSuffix) :
                    LET c == <<n, CookieSuffix>> IN
                    /\ fs' = WriteFile(fs, c, CookieFileText(env))
                    /\ local' = [local EXCEPT
                         ![r].cookiefile = c,
                         ![r].temp_cookie_file = TempCookieFile(c)]
                    /\ hist' = [hist EXCEPT
                         ![r].cookie_txt_seen = Exists(fs, CookieTxt),
                         ![r].transient_made = TRUE,
                         ![r].created = @ \cup {c},
                         ![r].n_created = @ + 1]
               /\ pc' = [pc EXCEPT ![r] = "dl_try"]
            \* line 83 cannot create the file
            \/ /\ fs' = fs
               /\ local' = [local EXCEPT ![r].exc =
                    RawException("OSError", "No usable temporary directory")]
               /\ hist' = [hist EXCEPT
                    ![r].cookie_txt_seen = Exists(fs, CookieTxt),
                    ![r].dl_ended = TRUE]
               /\ pc' = [pc EXCEPT ![r] = "finally"]
            \* lines 84-86 raise: the file was created and stays, written
            \* in part; temp_cookie_file is not yet assigned and the
            \* try/finally of lines 93-104 is not entered
            \/ \E n \in FreeNames(fs, CookieSuffix),
                    f \in CookieWriteFailures(env) :
                 LET c == <<n, CookieSuffix>> IN
                 /\ fs' = WriteFile(fs, c, f.left)
                 /\ local' = [local EXCEPT ![r].exc = f.exc]
                 /\ hist' = [hist EXCEPT
                      ![r].cookie_txt_seen = Exists(fs, CookieTxt),
                      ![r].transient_made = TRUE,
                      ![r].transient_left = TRUE,
                      ![r].dl_ended = TRUE,
                      ![r].created = @ \cup {c},
                      ![r].n_created = @ + 1]
                 /\ pc' = [pc EXCEPT ![r] = "finally"]
       [] OTHER ->
            /\ local' = [local EXCEPT
                 ![r].temp_cookie_file = TempCookieFile(None)]
            /\ hist' = [hist EXCEPT
                 ![r].cookie_txt_seen = Exists(fs, CookieTxt)]
            /\ fs' = fs
            /\ pc' = [pc EXCEPT ![r] = "dl_try"]
  /\ UNCHANGED <<env, running, req, outcome, healthVars, pingVars, apiVars>>

\* download_media, lines 93-100: the engine downloads to the template with
\* %(ext)s filled in and reports that name, or raises.
DownloadEngine(r) ==
  /\ pc[r] = "dl_try"
  /\ running = r
  /\ \/ \E e \in MediaExts,
            jar \in CookieFileAfterEngine(fs, local[r].cookiefile) :
          LET f == <<local[r].tmp_file[1], e>> IN
          /\ fs' = WriteFile(jar, f, <<"media">>)
          /\ local' = [local EXCEPT ![r].filename = f]
          /\ hist' = [hist EXCEPT
               ![r].created = @ \cup {f},
               ![r].n_created = @ + 1,
               ![r].engine_cookie = CookieKind(local[r].cookiefile)]
     \* The engine raises, before or after it has written the file; no
     \* path reaches transcribe_media, so a written file stays.
     \/ \E c \in DownloadCauses, wrote \in BOOLEAN, e \in MediaExts,
            jar \in CookieFileAfterEngine(fs, local[r].cookiefile) :
          LET f == <<local[r].tmp_file[1], e>> IN
          /\ local' = [local EXCEPT ![r].exc = DownloadHTTPException(c)]
          /\ hist' = [hist EXCEPT
               ![r].dl_cause = c,
               ![r].created = IF wrote THEN @ \cup {f} ELSE @,
               ![r].n_created = IF wrote THEN @ + 1 ELSE @,
               ![r].engine_cookie = CookieKind(local[r].cookiefile)]
          /\ fs' = IF wrote THEN WriteFile(jar, f, <<"media">>) ELSE jar
  /\ pc' = [pc EXCEPT ![r] = "dl_finally"]
  /\ UNCHANGED <<env, running, req, outcome, healthVars, pingVars, apiVars>>

\* download_media, lines 101-104, then back in transcribe_media at line 124.
DownloadFinally(r) ==
  /\ pc[r] = "dl_finally"
  /\ running = r
  /\ LET target == DownloadCleanupTarget(local[r].temp_cookie_file,
                                         local[r].filename) IN
     fs' = IF CookieCleanupDue(fs, target, local[r].exc)
             THEN Unlink(fs, target)
             ELSE fs
  /\ LET next == AfterDownload(local[r].exc) IN
     /\ pc' = [pc EXCEPT ![r] = next]
     /\ IF local[r].exc = NoExc
          THEN local' = [local EXCEPT ![r].audio_file = local[r].filename]
          ELSE local' = local
     /\ hist' = [hist EXCEPT
          ![r].dl_ended = TRUE,
          ![r].transient_left = /\ hist[r].transient_made
                                /\ Exists(fs', local[r].cookiefile),
          ![r].got_path = (local[r].exc = NoExc),
          ![r].stages = IF next = "fetched" THEN Append(@, "Fetched") ELSE @]
  /\ UNCHANGED <<env, running, req, outcome, healthVars, pingVars, apiVars>>

\* transcribe_audio, line 109, called at line 126: load the model.
TranscribeLoad(r) ==
  /\ pc[r] = "fetched"
  /\ running = r
  /\ \/ \E c \in LoadCauses :
          /\ local' = [local EXCEPT ![r].exc = TranscribeHTTPException(c)]
          /\ pc' = [pc EXCEPT ![r] = "finally"]
          /\ hist' = [hist EXCEPT ![r].tr_calls = @ + 1, ![r].tr_cause = c]
     \/ /\ req[r].model_size = DefaultModelSize
        /\ local' = local
        /\ pc' = [pc EXCEPT ![r] = "tr_model"]
        /\ hist' = [hist EXCEPT ![r].tr_calls = @ + 1]
  /\ UNCHANGED <<fs, env, running, req, outcome, healthVars, pingVars, apiVars>>

\* transcribe_audio, lines 110-114: inference on the file.
TranscribeInfer(r) ==
  /\ pc[r] = "tr_model"
  /\ running = r
  /\ \/ \E c \in InferenceCauses :
          /\ local' = [local EXCEPT ![r].exc = TranscribeHTTPException(c)]
          /\ pc' = [pc EXCEPT ![r] = "finally"]
          /\ hist' = [hist EXCEPT ![r].tr_cause = c]
     \/ \E res \in EngineResults :
          /\ local' = [local EXCEPT ![r].result = res]
          /\ pc' = [pc EXCEPT ![r] = "transcribed"]
          /\ hist' = [hist EXCEPT ![r].stages = Append(@, "Transcribed"),
                                  ![r].engine_result = res]
  /\ UNCHANGED <<fs, env, running, req, outcome, healthVars, pingVars, apiVars>>

\* Lines 128-132: the response is built; a missing key raises KeyError.
Respond(r) ==
  /\ pc[r] = "transcribed"
  /\ running = r
  /\ IF HasKeys(local[r].result)
       THEN local' = [local EXCEPT
                        ![r].response = TranscriptionResponse(local[r].result)]
       ELSE local' = [local EXCEPT ![r].exc =
                        KeyErrorException(FirstMissingKey(local[r].result))]
  /\ pc' = [pc EXCEPT ![r] = "finally"]
  /\ UNCHANGED <<fs, env, running, req, outcome, hist, healthVars, pingVars, apiVars>>

\* Lines 134-136, then the coroutine ends and the loop is free again.
Finally(r) ==
  /\ pc[r] = "finally"
  /\ running = r
  /\ LET due == AudioCleanupDue(fs, local[r].audio_file) IN
     /\ fs' = IF due THEN Unlink(fs, local[r].audio_file) ELSE fs
     /\ hist' = [hist EXCEPT
          ![r].unlinks = IF due THEN @ + 1 ELSE @,
          ![r].audio_left = Exists(fs', local[r].audio_file),
          ![r].n_left = Cardinality(hist[r].created \cap DOMAIN fs'),
          ![r].created = {},
          ![r].stages = Append(@, IF local[r].exc = NoExc
                                    THEN "Responded" ELSE "Failed")]
  /\ outcome' = [outcome EXCEPT
       ![r] = IF local[r].exc = NoExc
                THEN OutcomeOfResponse(local[r].response)
                ELSE OutcomeOfException(local[r].exc)]
  /\ local' = [local EXCEPT ![r] = InitLocal]
  /\ req' = [req EXCEPT ![r] = InitReq]
  /\ pc' = [pc EXCEPT ![r] = "done"]
  /\ running' = NoTask
  /\ UNCHANGED <<env, healthVars, pingVars, apiVars>>

\* --------------------------------------------------------------- GET /health
HealthArrive(h) ==
  /\ hpc[h] = "idle"
  /\ \A g \in Health : g < h => hpc[g] # "idle"  \* numbered as they arrive
  /\ hpc' = [hpc EXCEPT ![h] = "pending"]
  /\ UNCHANGED <<fs, env, running, reqVars, hresp, pingVars, apiVars>>

\* health_check, lines 144-146: a coroutine without awaits, run by the loop
\* when no other coroutine holds it.
health_check(h) ==
  /\ hpc[h] = "pending"
  /\ running = NoTask
  /\ ~shutdown
  /\ hresp' = [hresp EXCEPT ![h] = [status |-> 200, body |-> "healthy"]]
  /\ hpc' = [hpc EXCEPT ![h] = "done"]
  /\ UNCHANGED <<fs, env, running, reqVars, pingVars, apiVars>>

\* ------------------------------------------------------------- specification
Next ==
  \/ \E r \in Req : Arrive(r)
  \/ \E r \in Req : Start(r)
  \/ \E r \in Req : Validate(r)
  \/ \E r \in Req : DownloadOpen(r)
  \/ \E r \in Req : DownloadCookies(r)
  \/ \E r \in Req : DownloadEngine(r)
  \/ \E r \in Req : DownloadFinally(r)
  \/ \E r \in Req : TranscribeLoad(r)
  \/ \E r \in Req : TranscribeInfer(r)
  \/ \E r \in Req : Respond(r)
  \/ \E r \in Req : Finally(r)
  \/ \E h \in Health : HealthArrive(h)
  \/ \E h \in Health : health_check(h)

Spec == Init /\ [][Next]_vars

\* ------------------------------------------- keep_alive_task (main.py 20-43)
\* ping_service, lines 29-30: the exceptions it catches and logs
CaughtByPingService_none(result) == FALSE
CaughtByPingService(result) == result = "RequestException"

\* ping_service, lines 25-30: what a finished call has logged
PingLogLine(result) ==
  CASE result = "200" -> "info: Successfully pinged"
    [] result = "RequestException" -> "error: Failed to ping"
    [] OTHER -> "warning: Ping returned status"

\* How the outstanding requests.get ends.  A request to this very process
\* gets its 200 only if health_check has replied; otherwise the 30 s
\* timeout raises (a RequestException).
PingEndings(url, replied) ==
  IF url = SelfUrl
    THEN (IF replied THEN {"200"} ELSE {"RequestException"})
    ELSE PingResults

\* keep_alive_task, line 35, and ping_service, lines 21-24: the loop runs
\* the task; ping_service is called in the coroutine itself and, with a
\* url, sits in the blocking requests.get.  Without a url it returns at
\* once and the task is back in asyncio.sleep (line 36).
PingBegin ==
  /\ ppc \in {"created", "sleeping"}
  /\ running = NoTask
  /\ Len(ping_log) < MaxPings
  /\ IF Truthy(deployed_url)
       THEN /\ running' = PingerTask
            /\ ppc' = "waiting"
            /\ self_req' = IF deployed_url = SelfUrl
                             THEN [self_req EXCEPT !.waiting = @ + 1]
                             ELSE self_req
            /\ ping_log' = ping_log
       ELSE /\ running' = NoTask
            /\ ppc' = "sleeping"
            /\ self_req' = self_req
            /\ ping_log' = Append(ping_log, "no url")
  /\ UNCHANGED <<fs, env, reqVars, healthVars, deployed_url, shutdown,
                 apiVars>>

\* ping_service, lines 24-30, then keep_alive_task line 36: requests.get
\* ends, the outcome is logged, and the task awaits asyncio.sleep(30),
\* which frees the loop.  An exception ping_service does not catch ends
\* the task.
PingEnd ==
  /\ ppc = "waiting"
  /\ running = PingerTask
  /\ \E res \in PingEndings(deployed_url, self_req.replied) :
       IF res \in {"200", "503"} \/ CaughtByPingService(res)
         THEN /\ ping_log' = Append(ping_log, PingLogLine(res))
              /\ ppc' = "sleeping"
         ELSE /\ ping_log' = Append(ping_log, "raised")
              /\ ppc' = "dead"
  /\ running' = NoTask
  /\ self_req' = [self_req EXCEPT !.replied = FALSE]
  /\ UNCHANGED <<fs, env, reqVars, healthVars, deployed_url, shutdown,
                 apiVars>>

\* health_check, lines 144-146, for a GET /health that the pinger sent to
\* this process: run by the loop when it is free; the reply reaches the
\* pinger only if its requests.get is still outstanding.
health_check_self ==
  /\ self_req.waiting > 0
  /\ running = NoTask
  /\ ~shutdown
  /\ self_req' = [waiting |-> self_req.waiting - 1,
                  replied |-> (ppc = "waiting")]
  /\ UNCHANGED <<fs, env, running, reqVars, healthVars, deployed_url, ppc,
                 ping_log, shutdown, apiVars>>

\* lifespan, line 43: after the yield, task.cancel().  It runs on the loop,
\* so the task is then suspended in its sleep or has never run.
Shutdown ==
  /\ ~shutdown
  /\ running = NoTask
  /\ shutdown' = TRUE
  /\ ppc' = IF ppc \in {"created", "sleeping"} THEN "cancelled" ELSE ppc
  /\ UNCHANGED <<fs, env, running, reqVars, healthVars, deployed_url,
                 ping_log, self_req, apiVars>>

HandlerStep(r) ==
  \/ Start(r)
  \/ Validate(r)
  \/ DownloadOpen(r)
  \/ DownloadCookies(r)
  \/ DownloadEngine(r)
  \/ DownloadFinally(r)
  \/ TranscribeLoad(r)
  \/ TranscribeInfer(r)
  \/ Respond(r)
  \/ Finally(r)

\* The keep-alive task does not read YOUTUBE_COOKIES: it is left unset here.
InitLoop ==
  /\ InitMain
  /\ env = NoEnv
  /\ InitPinger(DeployedUrls)
  /\ InitApi

NextLoop ==
  \/ \E r \in 1..LoopReq : Arrive(r)
  \/ \E r \in Req : HandlerStep(r)
  \/ \E h \in Health : HealthArrive(h)
  \/ \E h \in Health : health_check(h)
  \/ PingBegin
  \/ PingEnd
  \/ health_check_self
  \/ Shutdown

\* The whole process of main.py: request handlers and the keep-alive task
\* on one event loop, until shutdown.
SpecLoop == InitLoop /\ [][NextLoop]_vars

\* ------------------------- transcription_api.py: transcribe_audio (55-128)
mainVars == <<env, running, reqVars, healthVars, pingVars>>

ApiArrive(a) ==
  /\ apc[a] = "idle"
  /\ \A b \in ApiReq : b < a => apc[b] # "idle"
  /\ apc' = [apc EXCEPT ![a] = "pending"]
  /\ UNCHANGED <<fs, mainVars, arunning, areq, alocal, aoutcome, ahist>>

\* The free loop reads the oldest waiting request, parses its body
\* (lines 33-35) and enters transcribe_audio, directly (line 56) or through
\* transcribe_simple (lines 120-125).
ApiStart(a) ==
  /\ apc[a] = "pending"
  /\ \A b \in ApiReq : b < a => apc[b] # "pending"
  /\ arunning = NoTask
  /\ arunning' = a
  /\ \E l \in BodyLanguages, e \in Endpoints :
       areq' = [areq EXCEPT ![a] = [body_language |-> l, endpoint |-> e]]
  /\ apc' = [apc EXCEPT ![a] = "download"]
  /\ UNCHANGED <<fs, mainVars, alocal, aoutcome, ahist>>

\* Lines 64-65: requests.get and raise_for_status.
ApiDownload(a) ==
  /\ apc[a] = "download"
  /\ arunning = a
  /\ \/ /\ apc' = [apc EXCEPT ![a] = "tempfile"]
        /\ ahist' = [ahist EXCEPT ![a].download_ok = TRUE,
                                  ![a].events = Append(@, "content")]
        /\ alocal' = alocal
     \/ \E f \in ApiDownloadFailures :
          /\ apc' = [apc EXCEPT ![a] = "except"]
          /\ alocal' = [alocal EXCEPT
               ![a].exc = [class |-> "RequestException", msg |-> f]]
          /\ ahist' = [ahist EXCEPT ![a].dl_failure = f,
                                    ![a].events = Append(@, f)]
  /\ UNCHANGED <<fs, mainVars, arunning, areq, aoutcome>>

\* Lines 68-70: the temporary file is created and written; creating it may
\* fail (no file), writing it may fail (the file stays).
ApiTempFile(a) ==
  /\ apc[a] = "tempfile"
  /\ arunning = a
  /\ \/ \E n \in FreeNames(fs, AudioSuffix) :
          LET p == <<n, AudioSuffix>> IN
          /\ fs' = WriteFile(fs, p, <<"content">>)
          /\ alocal' = [alocal EXCEPT ![a].temp_file_path = p]
          /\ ahist' = [ahist EXCEPT ![a].file_made = TRUE,
                                    ![a].file = p,
                                    ![a].events = Append(@, "written")]
          /\ apc' = [apc EXCEPT ![a] = "transcribe"]
     \/ /\ fs' = fs
        /\ alocal' = [alocal EXCEPT
             ![a].exc = [class |-> "OSError", msg |-> "No usable directory"]]
        /\ ahist' = [ahist EXCEPT ![a].other_failure = "tempfile",
                                  ![a].events = Append(@, "create failed")]
        /\ apc' = [apc EXCEPT ![a] = "except"]
     \* The write fails: at line 69, before temp_file_path is assigned,
     \* when the content exceeds the buffer, else at the close that ends
     \* the with block, after line 70.  The inner try is not entered.
     \/ \E n \in FreeNames(fs, AudioSuffix), at_close \in BOOLEAN :
          LET p == <<n, AudioSuffix>> IN
          /\ fs' = WriteFile(fs, p, <<>>)
          /\ alocal' = [alocal EXCEPT
               ![a].temp_file_path = IF at_close THEN p ELSE @,
               ![a].exc = [class |-> "OSError", msg |-> "No space left"]]
          /\ ahist' = [ahist EXCEPT ![a].file_made = TRUE,
                                    ![a].file = p,
                                    ![a].other_failure = "tempfile",
                                    ![a].events = Append(@, "write failed")]
          /\ apc' = [apc EXCEPT ![a] = "except"]
  /\ UNCHANGED <<mainVars, arunning, areq, aoutcome>>

\* Lines 72-85: model.transcribe with the language argument.
ApiTranscribe(a) ==
  /\ apc[a] = "transcribe"
  /\ arunning = a
  /\ LET lang == LanguageArg(RequestLanguage(areq[a].body_language)) IN
     \/ \E f \in ApiInferenceFailures :
          /\ alocal' = [alocal EXCEPT
               ![a].language = lang,
               ![a].exc = [class |-> "RuntimeError", msg |-> f]]
          /\ ahist' = [ahist EXCEPT ![a].transcribe_calls = @ + 1,
                                    ![a].model_language = lang,
                                    ![a].other_failure = "inference",
                                    ![a].events = Append(@, f)]
          /\ apc' = [apc EXCEPT ![a] = "finally"]
     \/ \E res \in EngineResults :
          /\ alocal' = [alocal EXCEPT ![a].language = lang,
                                      ![a].result = res]
          /\ ahist' = [ahist EXCEPT ![a].transcribe_calls = @ + 1,
                                    ![a].model_language = lang,
                                    ![a].engine_result = res,
                                    ![a].events = Append(@, ResultTag(res))]
          /\ apc' = [apc EXCEPT ![a] = "map"]
  /\ UNCHANGED <<fs, mainVars, arunning, areq, aoutcome>>

\* Lines 87-101: segments and response; a missing key raises KeyError.
ApiMap(a) ==
  /\ apc[a] = "map"
  /\ arunning = a
  /\ LET missing == ApiMissingKey(alocal[a].result) IN
     IF missing = ""
       THEN /\ alocal' = [alocal EXCEPT
                 ![a].response = ApiResponse(alocal[a].result)]
            /\ ahist' = ahist
       ELSE /\ alocal' = [alocal EXCEPT
                 ![a].exc = [class |-> "KeyError", msg |-> missing]]
            /\ ahist' = [ahist EXCEPT ![a].other_failure = "mapping"]
  /\ apc' = [apc EXCEPT ![a] = "finally"]
  /\ UNCHANGED <<fs, mainVars, arunning, areq, aoutcome>>

\* Lines 103-106: the inner finally; without an exception the handler
\* returns its response (transcribe_simple: text and language of it).
ApiFinally(a) ==
  /\ apc[a] = "finally"
  /\ arunning = a
  /\ fs' = IF ApiCleanupDue(fs, alocal[a].temp_file_path)
             THEN Unlink(fs, alocal[a].temp_file_path)
             ELSE fs
  /\ ahist' = [ahist EXCEPT
       ![a].file_left = Exists(fs', ahist[a].file),
       ![a].file = IF alocal[a].exc = NoApiExc THEN None ELSE @]
  /\ IF alocal[a].exc = NoApiExc
       THEN /\ aoutcome' = [aoutcome EXCEPT ![a] =
                 OutcomeOfResponse(
                   IF areq[a].endpoint = "/transcribe-simple"
                     THEN SimpleBody(alocal[a].response)
                     ELSE alocal[a].response)]
            /\ apc' = [apc EXCEPT ![a] = "done"]
            /\ alocal' = [alocal EXCEPT ![a] = InitApiLocal]
            /\ arunning' = NoTask
       ELSE /\ apc' = [apc EXCEPT ![a] = "except"]
            /\ UNCHANGED <<aoutcome, alocal, arunning>>
  /\ UNCHANGED <<mainVars, areq>>

\* Lines 108-116: the exception becomes an HTTPException, which
\* transcribe_simple raises again unchanged (lines 127-128).
ApiExcept(a) ==
  /\ apc[a] = "except"
  /\ arunning = a
  /\ aoutcome' = [aoutcome EXCEPT ![a] =
       OutcomeOfException(ApiExceptionToHTTP(alocal[a].exc))]
  /\ apc' = [apc EXCEPT ![a] = "done"]
  /\ alocal' = [alocal EXCEPT ![a] = InitApiLocal]
  /\ arunning' = NoTask
  /\ ahist' = [ahist EXCEPT ![a].file_left = Exists(fs, ahist[a].file),
                            ![a].file = None]
  /\ UNCHANGED <<fs, mainVars, areq>>

InitApiSpec == Init /\ fs = <<>> /\ env = NoEnv

NextApi ==
  \/ \E a \in ApiReq : ApiArrive(a)
  \/ \E a \in ApiReq : ApiStart(a)
  \/ \E a \in ApiReq : ApiDownload(a)
  \/ \E a \in ApiReq : ApiTempFile(a)
  \/ \E a \in ApiReq : ApiTranscribe(a)
  \/ \E a \in ApiReq : ApiMap(a)
  \/ \E a \in ApiReq : ApiFinally(a)
  \/ \E a \in ApiReq : ApiExcept(a)

\* The process of transcription_api.py
SpecApi == InitApiSpec /\ [][NextApi]_vars

\* ------------------------------------------------------------------ claims
StageOrder == <<"Received", "Validated", "Fetched", "Transcribed", "Responded">>

IsPrefix(a, b) == Len(a) <= Len(b) /\ \A i \in 1..Len(a) : a[i] = b[i]

\* A stage history is in order when, a final "Failed" set aside, it is an
\* initial part of Received, Validated, Fetched, Transcribed, Responded.
InOrder(st) ==
  IF st # <<>> /\ st[Len(st)] = "Failed"
    THEN IsPrefix(SubSeq(st, 1, Len(st) - 1), StageOrder)
    ELSE IsPrefix(st, StageOrder)

\* download_media or transcribe_audio has been entered and has not ended
InDownloadOrTranscribe(r) ==
  pc[r] \in {"dl_cookies", "dl_try", "dl_finally", "tr_model"}

\* C1: whenever download_media returned a path to transcribe_media, that
\* file has been unlinked exactly once and is gone when the handler ends,
\* whether it ends with a response, an HTTPException or another exception;
\* before the handler's cleanup it has not been unlinked at all.
C1_MediaUnlinkedOnce ==
  \A r \in Req :
    /\ hist[r].unlinks <= 1
    /\ (pc[r] = "done" /\ hist[r].got_path) =>
         /\ hist[r].unlinks = 1
         /\ ~hist[r].audio_left
    /\ (pc[r] # "done") => hist[r].unlinks = 0

C1_Witness ==
  \E r \in Req :
    /\ pc[r] = "done"
    /\ hist[r].got_path
    /\ outcome[r].kind = "KeyError"
    /\ hist[r].unlinks = 1

\* C2: a request that reached the fetch stage created exactly one file and
\* none of the files it created exists when its handler has returned.
C2_OneFileNoneLeft ==
  \A r \in Req :
    (pc[r] = "done" /\ hist[r].dl_calls > 0) =>
      /\ hist[r].n_created = 1
      /\ hist[r].n_left = 0

\* C3: a request whose url fails validate_url ends with a 400 HTTPException
\* with a non-empty detail, and neither download_media nor transcribe_audio
\* was called for it and it created no file.
C3_InvalidUrlRejected ==
  \A r \in Req :
    (pc[r] = "done" /\ ~hist[r].url_valid) =>
      /\ outcome[r].kind = "HTTPException"
      /\ outcome[r].status = 400
      /\ outcome[r].detail # <<>>
      /\ hist[r].dl_calls = 0
      /\ hist[r].tr_calls = 0
      /\ hist[r].n_created = 0

C3_Witness ==
  \E r \in Req :
    /\ pc[r] = "done"
    /\ ~hist[r].url_valid
    /\ hist[r].stages = <<"Received", "Failed">>
    /\ outcome[r].status = 400

\* C4: when the download engine raised inside download_media, the request
\* ends with a 400 HTTPException whose detail contains the engine's message
\* and transcribe_audio was never called.
C4_DownloadFailureIs400 ==
  \A r \in Req :
    (pc[r] = "done" /\ hist[r].dl_cause # "") =>
      /\ outcome[r].kind = "HTTPException"
      /\ outcome[r].status = 400
      /\ Contains(outcome[r].detail, hist[r].dl_cause)
      /\ hist[r].tr_calls = 0

C4_Witness ==
  \E r \in Req :
    /\ pc[r] = "done"
    /\ hist[r].dl_cause = "timed out"
    /\ outcome[r].status = 400

\* C5: when model loading or inference raised inside transcribe_audio after
\* a successful download, the request ends with a 500 HTTPException whose
\* detail contains the model's message.
C5_TranscribeFailureIs500 ==
  \A r \in Req :
    (pc[r] = "done" /\ hist[r].tr_cause # "") =>
      /\ outcome[r].kind = "HTTPException"
      /\ outcome[r].status = 500
      /\ Contains(outcome[r].detail, hist[r].tr_cause)

C5_Witness ==
  \E r, q \in Req :
    /\ pc[r] = "done" /\ pc[q] = "done"
    /\ hist[r].got_path /\ hist[q].got_path
    /\ hist[r].tr_cause \in LoadCauses
    /\ hist[q].tr_cause \in InferenceCauses
    /\ outcome[r].status = 500 /\ outcome[q].status = 500

\* C6: a request passes the stages in the order Received, Validated,
\* Fetched, Transcribed, Responded, possibly ending in Failed; download_media
\* is called only once the url was validated, transcribe_audio only once
\* download_media returned a path, and each at most once.
C6_StagesInOrder ==
  \A r \in Req :
    /\ InOrder(hist[r].stages)
    /\ hist[r].dl_calls <= 1
    /\ hist[r].tr_calls <= 1
    /\ hist[r].dl_calls = 1 =>
         /\ hist[r].url_valid
         /\ Len(hist[r].stages) >= 2 /\ hist[r].stages[2] = "Validated"
    /\ hist[r].tr_calls = 1 =>
         /\ hist[r].got_path
         /\ Len(hist[r].stages) >= 3 /\ hist[r].stages[3] = "Fetched"

C6_Witness ==
  \E r, q \in Req :
    /\ hist[r].stages = StageOrder
    /\ hist[q].stages = <<"Received", "Validated", "Failed">>
    /\ hist[q].dl_calls = 1

\* C7: a transient cookie file written by download_media does not exist
\* once download_media has returned or raised.
C7_TransientCookieRemoved ==
  \A r \in Req :
    (hist[r].dl_ended /\ hist[r].transient_made) => ~hist[r].transient_left

\* The part of C7 that the try/finally of download_media covers: a
\* transient cookie file that was handed to the engine is gone once
\* download_media has returned or raised.
TransientCookieRemovedAfterEngine ==
  \A r \in Req :
    (hist[r].dl_ended /\ hist[r].engine_cookie = "transient") =>
      ~hist[r].transient_left

\* C8: no step removes or rewrites an existing cookie.txt.
C8_PersistentCookieKept ==
  [][Exists(fs, CookieTxt) =>
       (Exists(fs', CookieTxt) /\ fs'[CookieTxt] = fs[CookieTxt])]_vars

\* The part of C8 that download_media itself decides: no step removes an
\* existing cookie.txt.
PersistentCookieNeverDeleted ==
  [][Exists(fs, CookieTxt) => Exists(fs', CookieTxt)]_vars

\* C9: with cookie.txt present the engine is given cookie.txt and no
\* transient file is written, whatever YOUTUBE_COOKIES holds; a transient
\* file is written, and given to the engine, only when cookie.txt is absent
\* and YOUTUBE_COOKIES is non-empty; with neither the engine gets no cookie
\* file.
C9_CookiePrecedence ==
  \A r \in Req :
    /\ hist[r].transient_made => (~hist[r].cookie_txt_seen /\ Truthy(env))
    /\ hist[r].cookie_txt_seen => ~hist[r].transient_made
    /\ hist[r].engine_cookie # "" =>
         /\ hist[r].cookie_txt_seen => hist[r].engine_cookie = "cookie.txt"
         /\ hist[r].transient_made => hist[r].engine_cookie = "transient"
         /\ (~hist[r].cookie_txt_seen /\ ~Truthy(env)) =>
              hist[r].engine_cookie = "none"

C9_Witness ==
  \E r \in Req :
    /\ hist[r].dl_ended
    /\ hist[r].cookie_txt_seen
    /\ Truthy(env)
    /\ hist[r].engine_cookie = "cookie.txt"

\* C10: a waiting GET /health request can be answered while a
\* transcribe_media request is in its download or transcription stage, and
\* every answer given is 200 {"status": "healthy"}.
C10_HealthAnsweredDuringTranscription ==
  \A h \in Health :
    /\ hpc[h] = "done" => hresp[h] = [status |-> 200, body |-> "healthy"]
    /\ (hpc[h] = "pending" /\ \E r \in Req : InDownloadOrTranscribe(r)) =>
         ENABLED health_check(h)

\* C11: while a ping of keep_alive_task is outstanding, a waiting
\* /transcribe request (the oldest one) can be started by the event loop.
C11_PingLeavesLoopFree ==
  \A r \in Req :
    ( /\ ppc = "waiting"
      /\ ~shutdown
      /\ pc[r] = "pending"
      /\ \A q \in Req : q < r => pc[q] # "pending" )
    => ENABLED Start(r)

\* C12: two /transcribe requests can be in flight together: while one is
\* inside download_media or transcribe_audio, the oldest waiting request
\* can be started; and requests in flight together hold different media
\* file paths.
C12_RequestsOverlap ==
  \A r, q \in Req :
    r # q =>
      /\ ( /\ InDownloadOrTranscribe(r)
           /\ pc[q] = "pending"
           /\ \A o \in Req : o < q => pc[o] # "pending" )
         => ENABLED Start(q)
      /\ ( /\ local[r].audio_file # None
           /\ local[q].audio_file # None )
         => local[r].audio_file # local[q].audio_file

\* C13: keep_alive_task never ends on its own: whatever a ping ends with
\* (200, another status, a raised error) the call is logged and the task
\* sleeps, from its sleep it goes on to the next ping, and it stops only by
\* the cancel of the lifespan shutdown, after which nothing more is pinged.
C13_PingLoopSurvives ==
  /\ [](/\ ppc # "dead"
        /\ ppc = "cancelled" => shutdown
        /\ (ppc = "sleeping" /\ running = NoTask
              /\ Len(ping_log) < MaxPings) => ENABLED PingBegin)
  /\ [][/\ (ppc = "waiting" /\ ppc' # "waiting") =>
             (ppc' = "sleeping" /\ Len(ping_log') = Len(ping_log) + 1)
        /\ (ppc = "sleeping" /\ ppc' # "sleeping") =>
             ppc' \in {"waiting", "cancelled"}
        /\ shutdown =>
             /\ ppc' = ppc
             /\ ping_log' = ping_log
             /\ self_req'.waiting <= self_req.waiting]_vars

C13_Witness ==
  /\ ppc = "cancelled"
  /\ shutdown
  /\ deployed_url = OtherUrl
  /\ ping_log = <<"error: Failed to ping", "warning: Ping returned status">>

\* C14 (main.py part): a 200 response carries the engine's text stripped
\* of leading and trailing whitespace and one {start, end, text} segment,
\* text stripped, per engine segment, in the engine's order.
C14_ResponseNormalized ==
  \A r \in Req :
    (pc[r] = "done" /\ outcome[r].kind = "response") =>
      LET raw == hist[r].engine_result
          body == outcome[r].body
      IN /\ body.text = Strip(raw.text)
         /\ Len(body.segments) = Len(raw.segments)
         /\ \A i \in 1..Len(body.segments) :
              /\ DOMAIN body.segments[i] = {"start", "end", "text"}
              /\ body.segments[i].start = raw.segments[i].start
              /\ body.segments[i].end = raw.segments[i].end
              /\ body.segments[i].text = Strip(raw.segments[i].text)

\* C18: transcribe_media ends with a 200 response, an HTTPException 400 or
\* an HTTPException 500, and with nothing else.
C18_OnlyThreeOutcomes ==
  \A r \in Req :
    pc[r] = "done" =>
      \/ outcome[r].kind = "response" /\ outcome[r].status = 200
      \/ outcome[r].kind = "HTTPException" /\ outcome[r].status \in {400, 500}

\* C19: from the call of transcribe_audio to its return or raise, the media
\* file download_media returned exists on disk, whatever other requests do.
C19_MediaFilePresentWhileTranscribing ==
  \A r \in Req :
    (pc[r] \in {"fetched", "tr_model"} /\ hist[r].got_path) =>
      /\ local[r].audio_file # None
      /\ Exists(fs, local[r].audio_file)
      /\ fs[local[r].audio_file] = <<"media">>

C19_Witness ==
  \E r, q \in Req :
    /\ pc[r] = "tr_model"
    /\ Exists(fs, local[r].audio_file)
    /\ pc[q] = "done"
    /\ hist[q].unlinks = 1

\* C20: with DEPLOYED_URL naming this process, health_check can run and
\* reply while ping_service waits for that reply.
C20_SelfPingCanBeAnswered ==
  ( /\ deployed_url = SelfUrl
    /\ ppc = "waiting"
    /\ ~shutdown
    /\ self_req.waiting > 0 )
  => ENABLED health_check_self

\* ------------------------------------------ claims on transcription_api.py
\* The transcription_api.py side of C14: the 200 response of /transcribe
\* carries the stripped text and one stripped {start, end, text} segment per
\* engine segment, in order.
ApiResponseNormalized ==
  \A a \in ApiReq :
    (apc[a] = "done" /\ aoutcome[a].kind = "response"
       /\ areq[a].endpoint = "/transcribe") =>
      LET raw == ahist[a].engine_result
          body == aoutcome[a].body
      IN /\ body.text = Strip(raw.text)
         /\ Len(body.segments) = Len(raw.segments)
         /\ \A i \in 1..Len(body.segments) :
              /\ DOMAIN body.segments[i] = {"start", "end", "text"}
              /\ body.segments[i].start = raw.segments[i].start
              /\ body.segments[i].end = raw.segments[i].end
              /\ body.segments[i].text = Strip(raw.segments[i].text)

\* C15: model.transcribe gets language None exactly when the request's
\* language is "auto" or omitted; any other language is handed over as it
\* came; the string "auto" never reaches the model.
C15_AutoMeansDetect ==
  \A a \in ApiReq :
    ahist[a].transcribe_calls > 0 =>
      LET sel == areq[a].body_language
          arg == ahist[a].model_language
      IN /\ (arg = PyNone) <=> (sel \in {Omitted, "auto"})
         /\ sel \notin {Omitted, "auto"} => arg = sel
         /\ arg # "auto"

\* Both kinds of request have reached the model: one that omits the
\* language and one that names a language.
C15_Witness ==
  \E a, b \in ApiReq :
    /\ ahist[a].transcribe_calls > 0 /\ areq[a].body_language = Omitted
    /\ ahist[b].transcribe_calls > 0 /\ areq[b].body_language = "en"
    /\ ahist[a].model_language = PyNone
    /\ ahist[b].model_language = "en"

\* C16: a temporary audio file is made only after a successful download,
\* never when the download failed, and a request that made one has left
\* none when it returns.
C16_TempFileGoneAtReturn ==
  \A a \in ApiReq :
    /\ ahist[a].file_made => ahist[a].download_ok
    /\ ahist[a].dl_failure # "" => ~ahist[a].file_made
    /\ (apc[a] = "done" /\ ahist[a].file_made) => ~ahist[a].file_left

\* The part of C16 that the inner try/finally covers: a request that got as
\* far as model.transcribe has removed its file when it returns.
ApiCleanupAfterTranscribe ==
  \A a \in ApiReq :
    ahist[a].transcribe_calls > 0 =>
      /\ apc[a] = "except" => ~Exists(fs, ahist[a].file)
      /\ apc[a] = "done" => ~ahist[a].file_left

\* C17: a failed download ends in HTTP 400 naming the cause, without a call
\* of model.transcribe; any other exception ends in HTTP 500 naming it; and
\* two requests that met the same events fail alike on both endpoints.
C17_DownloadIs400OtherIs500 ==
  /\ \A a \in ApiReq :
       /\ ahist[a].dl_failure # "" => ahist[a].transcribe_calls = 0
       /\ (apc[a] = "done" /\ ahist[a].dl_failure # "") =>
            /\ aoutcome[a].kind = "HTTPException"
            /\ aoutcome[a].status = 400
            /\ aoutcome[a].detail =
                 <<"Failed to download audio: ", ahist[a].dl_failure>>
       /\ (apc[a] = "done" /\ ahist[a].other_failure # "") =>
            /\ aoutcome[a].kind = "HTTPException"
            /\ aoutcome[a].status = 500
            /\ aoutcome[a].detail[1] = "Transcription failed: "
  /\ \A a, b \in ApiReq :
       (/\ apc[a] = "done" /\ apc[b] = "done"
        /\ ahist[a].events = ahist[b].events
        /\ aoutcome[a].kind # "response") =>
         /\ aoutcome[b].kind = aoutcome[a].kind
         /\ aoutcome[b].status = aoutcome[a].status
         /\ aoutcome[b].detail = aoutcome[a].detail

\* One request failed at the download on /transcribe and another failed at
\* inference on /transcribe-simple.
C17_Witness ==
  \E a, b \in ApiReq :
    /\ apc[a] = "done" /\ apc[b] = "done"
    /\ areq[a].endpoint = "/transcribe"
    /\ ahist[a].dl_failure = "404 Client Error"
    /\ aoutcome[a].status = 400
    /\ areq[b].endpoint = "/transcribe-simple"
    /\ ahist[b].other_failure = "inference"
    /\ aoutcome[b].status = 500

====
